---- MODULE Spec2Model ----
(***************************************************************************)
(* The light-barrier MQTT listener of the Terelina back-end.               *)
(*                                                                         *)
(* The repository holds two listener modules with the same globals:        *)
(*   back-end/mqtt_client.py               (on_message,  states            *)
(*                                          "interrompida" / "livre")      *)
(*   back-end/app/services/mqtt_client.py  (_on_message, states            *)
(*                                          "interrupted" / "clear")       *)
(* A process runs one of them; impl says which one a behaviour is about.   *)
(***************************************************************************)
EXTENDS Integers, Sequences, FiniteSets, TLC

VARIABLES
    impl,                 \* which listener module the process runs
    clock,                \* int(time.time() * 1000), the wall clock in ms
    ticks,                \* how many times the clock has advanced
    _client,              \* module global _client
    conn,                 \* state of the client's broker session
    loop_running,         \* the client's network loop thread runs (loop_start .. loop_stop)
    subs,                 \* the subscriptions of the current broker session
    raised,               \* start_mqtt_client ended by raising to its caller
    stop_called,          \* stop_mqtt_client has been called
    status,               \* what the last call of get_mqtt_status returned
    fresh,                \* no message handled yet since the last successful connect
    _last_state,          \* module global _last_state
    _last_transition_ms,  \* module global _last_transition_ms
    _initialized,         \* module global _initialized
    count_calls,          \* handling times of the persistence calls made so far
    db_rows,              \* rows the persistence calls have committed
    error_log,            \* persistence failures reported with logger.error
    last_accepted,        \* state of the last message that passed the debounce gate
    ev,                   \* what the last run of the message handler did
    n_raw,                \* SpecNormalize: the argument of _normalize_state
    n_out,                \* SpecNormalize: what _normalize_state returned
    n_clients,            \* SpecThreads: how many mqtt.Client objects were created
    loops,                \* SpecThreads: the clients whose network loop thread runs
    t_pc,                 \* SpecThreads: where each loop thread is in the handler
    t_local,              \* SpecThreads: the locals of each loop thread's handler run
    holder,               \* SpecThreads: the client whose connection the broker holds (0: none)
    n_starts,             \* SpecThreads: how many start_mqtt_client calls were made
    will,                 \* the last will registered on the client with will_set
    alive,                \* the listener's process exists
    broker                \* the broker's side: the listener's connection, the will it
                          \* came with, and the retained value of the heartbeat topic

vars == << impl, clock, ticks, _client, conn, loop_running, subs, raised,
           stop_called, status, fresh, _last_state, _last_transition_ms,
           _initialized, count_calls, db_rows, error_log, last_accepted, ev,
           n_raw, n_out, n_clients, loops, t_pc, t_local, holder, n_starts,
           will, alive, broker >>

detector == << _last_state, _last_transition_ms, _initialized >>

\* the broker session and the network loop
session == << _client, conn, loop_running, subs, raised, stop_called >>

\* the event sink: the persistence calls and what became of them
sink == << count_calls, db_rows, error_log >>

\* the record of what the message handler did last
history == << fresh, last_accepted, ev >>

time == << clock, ticks >>

\* the normalizer's argument and result, used by SpecNormalize only
norm == << n_raw, n_out >>

\* the clients and their loop threads, used by SpecThreads only
threads == << n_clients, loops, t_pc, t_local, holder, n_starts >>

\* the process, its registered will and the broker's side of the heartbeat
presence == << will, alive, broker >>

----------------------------------------------------------------------------
(* Bounds of the model *)

\* the clock value at process start (epoch milliseconds are never 0)
StartMs == 1000
\* how many times the clock advances in a behaviour
MaxTicks == 3
\* how many start_mqtt_client calls a behaviour of SpecThreads makes, hence
\* how many clients it may create
MaxClients == 2
\* the amounts the clock moves by between two handler runs; time.time() is the
\* wall clock, which can also be set back
Steps == {-100, 99, 100}

----------------------------------------------------------------------------
(* Program constants *)

_DEBOUNCE_MS == 100

None == "None"

\* data.get("state") when the field is missing or null: Python's None where a
\* str is expected (a str is a sequence of characters, see below)
NoneRaw == << None >>

----------------------------------------------------------------------------
(* Strings: a Python str is a sequence of one-character strings *)

UpperCase == << "A", "B", "C", "D", "E", "I", "L", "M", "N", "O", "P", "R", "T", "U", "V" >>
LowerCase == << "a", "b", "c", "d", "e", "i", "l", "m", "n", "o", "p", "r", "t", "u", "v" >>

IsSpace(c) == c \in {" ", "\t", "\n"}

ToLower(c) ==
    IF \E i \in DOMAIN UpperCase : UpperCase[i] = c
    THEN LowerCase[CHOOSE i \in DOMAIN UpperCase : UpperCase[i] = c]
    ELSE c

\* str.lower()
lower(s) == [i \in DOMAIN s |-> ToLower(s[i])]

RECURSIVE lstrip(_)
lstrip(s) ==
    IF s # << >> /\ IsSpace(Head(s)) THEN lstrip(Tail(s)) ELSE s

RECURSIVE rstrip(_)
rstrip(s) ==
    IF s # << >> /\ IsSpace(s[Len(s)]) THEN rstrip(SubSeq(s, 1, Len(s) - 1)) ELSE s

\* str.strip()
strip(s) == rstrip(lstrip(s))

\* str.startswith(prefix)
startswith(s, prefix) ==
    /\ Len(s) >= Len(prefix)
    /\ SubSeq(s, 1, Len(prefix)) = prefix

S_interrompid == << "i", "n", "t", "e", "r", "r", "o", "m", "p", "i", "d" >>
S_interrupted == << "i", "n", "t", "e", "r", "r", "u", "p", "t", "e", "d" >>
S_livre       == << "l", "i", "v", "r", "e" >>
S_clear       == << "c", "l", "e", "a", "r" >>

\* _normalize_state of back-end/mqtt_client.py
NormalizeLegacy(raw_state) ==
    IF raw_state = NoneRaw THEN None
    ELSE LET s == lower(strip(raw_state))
         IN  IF startswith(s, S_interrompid) THEN "interrompida"
             ELSE IF s = S_livre THEN "livre"
             ELSE None

\* _normalize_state of back-end/app/services/mqtt_client.py
NormalizeServices(raw_state) ==
    IF raw_state = NoneRaw THEN None
    ELSE LET s == lower(strip(raw_state))
         IN  IF startswith(s, S_interrompid) \/ startswith(s, S_interrupted)
             THEN "interrupted"
             ELSE IF s = S_livre \/ s = S_clear THEN "clear"
             ELSE None

\* the canonical states of the two modules, by meaning
Interrupted == IF impl = "legacy" THEN "interrompida" ELSE "interrupted"
Clear       == IF impl = "legacy" THEN "livre" ELSE "clear"

----------------------------------------------------------------------------
(* Messages the broker can deliver on the state topic *)

\* values of the "state" field of a JSON object payload
RawStates ==
    { NoneRaw,
      << "i", "n", "t", "e", "r", "r", "o", "m", "p", "i", "d", "a" >>,
      << " ", "I", "n", "t", "e", "r", "r", "o", "m", "p", "i", "d", "o", "\n" >>,
      << "l", "i", "v", "r", "e" >>,
      << "L", "I", "V", "R", "E", " " >>,
      << "i", "n", "t", "e", "r", "r", "u", "p", "t", "e", "d" >>,
      << "c", "l", "e", "a", "r" >>,
      << "l", "i", "v", "r", "e", "s" >> }

\* payload kinds: "empty" (b""), "notjson" (json.loads raises), "nonobject"
\* (valid JSON that is no dict, e.g. a list), "object" (a dict)
Payloads ==
    { [kind |-> k, state |-> NoneRaw] : k \in {"empty", "notjson", "nonobject"} }
    \cup { [kind |-> "object", state |-> r] : r \in RawStates }

Messages == [retain : BOOLEAN, payload : Payloads]

\* the two normalizers on every raw state a message can carry, evaluated once
NormalizedBy ==
    [i \in {"legacy", "services"} |->
        [r \in RawStates |->
            IF i = "legacy" THEN NormalizeLegacy(r) ELSE NormalizeServices(r)]]

\* the call _normalize_state(data.get("state")) of the running module
_normalize_state(raw_state) == NormalizedBy[impl][raw_state]

\* the record of one run of the message handler: the message's retain flag, the
\* state it reported, how far it got (outcome), lastState before the run, and
\* the number of persistence calls the run made
NoEvent ==
    [retain |-> FALSE, state |-> None, outcome |-> "none",
     pre_state |-> "unknown", counted |-> 0]

Event(m, state, outcome, counted) ==
    [retain |-> m.retain, state |-> state, outcome |-> outcome,
     pre_state |-> _last_state, counted |-> counted]

----------------------------------------------------------------------------
(* The gates of the message handlers *)

\* "if is_retained and _initialized: return", only in back-end/mqtt_client.py
RetainedRepeat(m) ==
    impl = "legacy" /\ m.retain /\ _initialized

\* admission without the "if not state: return" test
Rejects_ShapeOnly(m, state) ==
    m.payload.kind # "object"

\* message admission: the payload is empty, is no JSON, is no JSON object, or
\* its state is missing or not recognised; the handler returns
Rejects(m, state) ==
    m.payload.kind # "object" \/ state = None

\* the gate with "<=" for "<": a message exactly one interval late is rejected
DebounceRejects_Inclusive(now_ms) ==
    _last_transition_ms # 0 /\ (now_ms - _last_transition_ms) <= _DEBOUNCE_MS

\* the gate left out: nothing is rejected for its timing
DebounceRejects_Never(now_ms) ==
    FALSE

\* "_last_transition_ms and (now_ms - _last_transition_ms) < _DEBOUNCE_MS"
DebounceRejects(now_ms) ==
    _last_transition_ms # 0 /\ (now_ms - _last_transition_ms) < _DEBOUNCE_MS

\* the state a debounce-rejected message leaves in _last_state:
\* back-end/mqtt_client.py stores the new state, the services module keeps the old one
DebouncedLastState(state) ==
    IF impl = "legacy" THEN state ELSE _last_state

\* the edge test without the previous state: every accepted clear counts
IsCountEdge_AnyClear(state) ==
    state = Clear

\* the edge that is counted: interrupted -> clear
IsCountEdge(state) ==
    _last_state = Interrupted /\ state = Clear

\* the failure handlers without the report: "except Exception: pass"
ReportFailure_Swallowed ==
    error_log' = error_log

\* "except Error as e: logger.error(...)" / "except Exception as e: logger.error(...)"
ReportFailure ==
    error_log' = error_log + 1

\* handle_pizza_pass / _handle_pizza_count: the persistence call. The INSERT is
\* committed, or the connection, the INSERT or the commit fails: the exception
\* is caught and reported, and the call returns normally either way
RecordCount(now_ms) ==
    /\ count_calls' = Append(count_calls, now_ms)
    /\ \E saved \in BOOLEAN :
          IF saved
          THEN db_rows' = db_rows + 1 /\ UNCHANGED error_log
          ELSE ReportFailure /\ UNCHANGED db_rows

----------------------------------------------------------------------------
(* Actions *)

MQTT_TOPIC_STATE == "sensores/barreira/estado"

Clients == 1 .. MaxClients

\* the handler's locals between its reads and its writes: what it decided to
\* do, the state it normalized, and the now_ms it took
NoLocals == [outcome |-> "none", state |-> None, now_ms |-> 0, count |-> FALSE]

\* no will registered: the CONNECT packet carries none
NoWill == [topic |-> None, payload |-> None, retain |-> FALSE]

\* the broker before the listener's first connection: nothing retained
NoSession == [open |-> FALSE, will |-> NoWill, heartbeat |-> None]

NoStatus == [status |-> "never asked", connected |-> FALSE, last_state |-> None]

Init ==
    /\ impl \in {"legacy", "services"}
    /\ clock = StartMs
    /\ ticks = 0
    /\ _client = None
    /\ conn = "idle"
    /\ loop_running = FALSE
    /\ subs = << >>
    /\ raised = FALSE
    /\ stop_called = FALSE
    /\ status = NoStatus
    /\ fresh = FALSE
    /\ _last_state = "unknown"
    /\ _last_transition_ms = 0
    /\ _initialized = FALSE
    /\ count_calls = << >>
    /\ db_rows = 0
    /\ error_log = 0
    /\ last_accepted = "unknown"
    /\ ev = NoEvent
    /\ n_raw = NoneRaw
    /\ n_out = None
    /\ n_clients = 0
    /\ loops = {}
    /\ t_pc = [t \in Clients |-> "idle"]
    /\ t_local = [t \in Clients |-> NoLocals]
    /\ holder = 0
    /\ n_starts = 0
    /\ will = NoWill
    /\ alive = TRUE
    /\ broker = NoSession

\* time passes (or the wall clock is set back)
Tick ==
    /\ ticks < MaxTicks
    /\ \E d \in Steps : clock' = clock + d
    /\ ticks' = ticks + 1
    /\ UNCHANGED << impl, presence, norm, threads, session, status, detector, sink, history >>

\* the guard of the services module's stop: "if _client and _client.is_connected()"
\* (back-end/mqtt_client.py: "if _client")
StopApplies ==
    /\ _client # None
    /\ impl = "services" => conn = "connected"

\* the heartbeat topic of back-end/mqtt_client.py
HEARTBEAT_TOPIC == "sensores/barreira/heartbeat"

\* start_mqtt_client without the will_set call
RegisterWill_Missing ==
    will' = will

\* _client.will_set("sensores/barreira/heartbeat", "offline", qos=1, retain=True),
\* called before connect(); the services module registers no will
RegisterWill ==
    will' = IF impl = "legacy"
            THEN [topic |-> HEARTBEAT_TOPIC, payload |-> "offline", retain |-> TRUE]
            ELSE will

\* the broker accepts the CONNECT (any older connection of the same client id
\* is closed) and keeps the will it carried; the connect callback of
\* back-end/mqtt_client.py then publishes the retained heartbeat "online"
SessionOpened ==
    broker' = [open |-> TRUE, will |-> will,
               heartbeat |-> IF impl = "legacy" THEN "online" ELSE broker.heartbeat]

\* disconnect() on a connected client sends DISCONNECT: the broker closes the
\* connection and discards its will
SessionClosed ==
    broker' = IF StopApplies /\ conn = "connected"
              THEN [broker EXCEPT !.open = FALSE, !.will = NoWill]
              ELSE broker

\* the exception of _client.connect() swallowed instead of reaching the caller
ConnectFailure_Swallowed ==
    raised' = FALSE

\* _client.connect() raises: back-end/mqtt_client.py lets the exception through,
\* the services module logs it and re-raises; loop_start() is not reached
ConnectFailure ==
    raised' = TRUE

\* start_mqtt_client, called once by the bootstrap: creates the client, opens
\* the connection (which succeeds or raises) and starts the network loop
start_mqtt_client(connect_ok) ==
    /\ alive
    /\ _client = None
    /\ ~stop_called
    /\ _client' = "client"
    /\ RegisterWill
    /\ IF connect_ok
       THEN conn' = "connecting" /\ loop_running' = TRUE /\ UNCHANGED raised
       ELSE ConnectFailure /\ UNCHANGED << conn, loop_running >>
    /\ UNCHANGED << impl, alive, broker, norm, threads, time, subs, stop_called, status,
                    detector, sink, history >>

\* the subscribe request sent at the lowest quality of service
Subscribe_Qos0 ==
    subs' = Append(subs, [topic |-> MQTT_TOPIC_STATE, qos |-> 0])

\* client.subscribe(MQTT_TOPIC_STATE, qos=1)
Subscribe ==
    subs' = Append(subs, [topic |-> MQTT_TOPIC_STATE, qos |-> 1])

\* a connect callback that starts the detector afresh on every connect
on_connect_Resets(rc) ==
    /\ alive
    /\ loop_running
    /\ conn = "connecting"
    /\ IF rc = 0
       THEN /\ conn' = "connected" /\ fresh' = TRUE /\ Subscribe /\ SessionOpened
            /\ _last_state' = "unknown"
            /\ _last_transition_ms' = 0
            /\ _initialized' = FALSE
       ELSE UNCHANGED << conn, fresh, subs, detector, broker >>
    /\ UNCHANGED << impl, will, alive, norm, threads, time, _client, loop_running, raised, stop_called,
                    status, sink, last_accepted, ev >>

\* on_connect / _on_connect, run by the network loop on CONNACK
on_connect(rc) ==
    /\ alive
    /\ loop_running
    /\ conn = "connecting"
    /\ IF rc = 0
       THEN conn' = "connected" /\ fresh' = TRUE /\ Subscribe /\ SessionOpened
       ELSE UNCHANGED << conn, fresh, subs, broker >>
    /\ UNCHANGED << impl, will, alive, norm, threads, time, _client, loop_running, raised, stop_called,
                    status, detector, sink, last_accepted, ev >>

\* on_disconnect / _on_disconnect with rc != 0: the session is lost (and with
\* it, clean session, its subscriptions); the network loop reconnects
on_disconnect ==
    /\ alive
    /\ loop_running
    /\ conn = "connected"
    /\ conn' = "connecting"
    /\ subs' = << >>
    /\ UNCHANGED << impl, presence, norm, threads, time, _client, loop_running, raised, stop_called,
                    status, detector, sink, history >>

\* one run of on_message / _on_message on message m
on_message(m) ==
    /\ alive
    /\ loop_running
    /\ conn = "connected"
    /\ subs # << >>
    /\ UNCHANGED << impl, presence, norm, threads, time, session, status >>
    /\ fresh' = FALSE
    /\ LET now_ms == clock
           state  == _normalize_state(m.payload.state)
       IN  IF RetainedRepeat(m)
           THEN /\ ev' = Event(m, None, "retained_dropped", 0)
                /\ UNCHANGED << detector, sink, last_accepted >>
           ELSE IF Rejects(m, state)
           THEN /\ ev' = Event(m, None, "rejected", 0)
                /\ UNCHANGED << detector, sink, last_accepted >>
           ELSE IF DebounceRejects(now_ms)
           THEN /\ _last_state' = DebouncedLastState(state)
                /\ ev' = Event(m, state, "debounced", 0)
                /\ UNCHANGED << _last_transition_ms, _initialized, sink, last_accepted >>
           ELSE /\ IF IsCountEdge(state)
                   THEN RecordCount(now_ms) /\ ev' = Event(m, state, "accepted", 1)
                   ELSE UNCHANGED sink /\ ev' = Event(m, state, "accepted", 0)
                /\ _last_state' = state
                /\ _last_transition_ms' = now_ms
                /\ _initialized' = TRUE
                /\ last_accepted' = state

OnMessage == \E m \in Messages : on_message(m)

\* stop_mqtt_client: loop_stop() joins the network loop thread, disconnect()
\* closes the session
stop_mqtt_client ==
    /\ alive
    /\ stop_called' = TRUE
    /\ SessionClosed
    /\ IF StopApplies
       THEN /\ loop_running' = FALSE
            /\ conn' = IF conn \in {"connecting", "connected"} THEN "closed" ELSE conn
            /\ subs' = << >>
       ELSE UNCHANGED << loop_running, conn, subs >>
    /\ UNCHANGED << impl, will, alive, norm, threads, time, _client, raised, status,
                    detector, sink, history >>

\* get_mqtt_status: a snapshot of the connection and of the last state
get_mqtt_status ==
    /\ alive
    /\ status' =
         IF _client = None
         THEN [status |-> "not_initialized", connected |-> FALSE, last_state |-> None]
         ELSE [status |-> IF impl = "legacy" THEN "initialized" ELSE "running",
               connected |-> (conn = "connected"),
               last_state |-> _last_state]
    /\ UNCHANGED << impl, presence, norm, threads, time, session, detector, sink, history >>

Next ==
    \/ Tick
    \/ \E connect_ok \in BOOLEAN : start_mqtt_client(connect_ok)
    \/ \E rc \in {0, 5} : on_connect(rc)
    \/ on_disconnect
    \/ OnMessage
    \/ stop_mqtt_client
    \/ get_mqtt_status

Spec == Init /\ [][Next]_vars

----------------------------------------------------------------------------
(* The state normalizer on its own: SpecNormalize *)

\* str.upper() of one character
ToUpper(c) ==
    IF \E i \in DOMAIN LowerCase : LowerCase[i] = c
    THEN UpperCase[CHOOSE i \in DOMAIN LowerCase : LowerCase[i] = c]
    ELSE c

upper(s) == [i \in DOMAIN s |-> ToUpper(s[i])]

capitalize(s) == [i \in DOMAIN s |-> IF i = 1 THEN ToUpper(s[i]) ELSE s[i]]

\* the words the raw states are built from: the recognised tokens, a proper
\* prefix of one, a number as str() renders it, and the empty string
NormWords ==
    { S_interrompid, S_interrupted, S_livre, S_clear,
      << "i", "n", "t", "e", "r", "r" >>, << "1" >>, << >> }

NormSuffixes == { << >>, << "a" >>, << "o" >>, << "s" >>, << " ", "x" >> }

NormSpaces == { << >>, << " " >>, << "\t", "\n" >> }

\* the raw values _normalize_state is applied to: None, and every word with a
\* suffix, in lower, upper and capitalized spelling, with whitespace around it
NormInputs ==
    { NoneRaw } \cup
    { pre \o w \o post :
        pre \in NormSpaces, post \in NormSpaces,
        w \in UNION { { x \o suf, upper(x \o suf), capitalize(x \o suf) } :
                        x \in NormWords, suf \in NormSuffixes } }

InitNormalize ==
    /\ impl \in {"legacy", "services"}
    /\ clock = StartMs
    /\ ticks = 0
    /\ _client = None
    /\ conn = "idle"
    /\ loop_running = FALSE
    /\ subs = << >>
    /\ raised = FALSE
    /\ stop_called = FALSE
    /\ status = NoStatus
    /\ fresh = FALSE
    /\ _last_state = "unknown"
    /\ _last_transition_ms = 0
    /\ _initialized = FALSE
    /\ count_calls = << >>
    /\ db_rows = 0
    /\ error_log = 0
    /\ last_accepted = "unknown"
    /\ ev = NoEvent
    /\ n_raw \in NormInputs
    /\ n_out = "pending"
    /\ n_clients = 0
    /\ loops = {}
    /\ t_pc = [t \in Clients |-> "idle"]
    /\ t_local = [t \in Clients |-> NoLocals]
    /\ holder = 0
    /\ n_starts = 0
    /\ will = NoWill
    /\ alive = TRUE
    /\ broker = NoSession

\* one call of the running module's _normalize_state on n_raw
Normalize ==
    /\ n_out = "pending"
    /\ n_out' = IF impl = "legacy" THEN NormalizeLegacy(n_raw) ELSE NormalizeServices(n_raw)
    /\ UNCHANGED << impl, presence, n_raw, threads, time, session, status, detector, sink, history >>

NextNormalize == Normalize

SpecNormalize == InitNormalize /\ [][NextNormalize]_vars

----------------------------------------------------------------------------
(* The network loop threads and their handler runs: SpecThreads *)

\* the guard left out of the services module's start: every call builds a client
AlreadyStarted_Never ==
    FALSE

\* "if _client: return _client" of the services module; back-end/mqtt_client.py
\* has no such test
AlreadyStarted ==
    impl = "services" /\ _client # None

\* start_mqtt_client with its loop thread. back-end/mqtt_client.py builds a new
\* Client and starts a new loop thread on every call; the services module
\* returns the existing client when _client is set, and assigns _client before
\* connect(), so a failed first call also makes the later ones return early
ThreadStart(connect_ok) ==
    /\ n_starts < MaxClients
    /\ n_starts' = n_starts + 1
    /\ IF AlreadyStarted
       THEN UNCHANGED << n_clients, _client, loops, raised >>
       ELSE /\ n_clients' = n_clients + 1
            /\ _client' = "client"
            /\ IF connect_ok
               THEN loops' = loops \cup {n_clients + 1} /\ UNCHANGED raised
               ELSE ConnectFailure /\ UNCHANGED loops
    /\ UNCHANGED << impl, presence, norm, time, status, detector, sink, history,
                    conn, loop_running, subs, stop_called, t_pc, t_local, holder >>

\* stop_mqtt_client: loop_stop() joins the loop thread of the client _client
\* names, so it returns once that thread's handler run is over; the services
\* module stops only a connected client
ThreadStop ==
    /\ _client # None
    /\ n_clients \in loops
    /\ impl = "services" => holder = n_clients
    /\ t_pc[n_clients] = "idle"
    /\ loops' = loops \ {n_clients}
    /\ holder' = IF holder = n_clients THEN 0 ELSE holder
    /\ stop_called' = TRUE
    /\ UNCHANGED << impl, presence, norm, time, status, detector, sink, history,
                    _client, conn, loop_running, subs, raised, n_clients, t_pc, t_local,
                    n_starts >>

\* the loop thread of client t (re)connects and subscribes; every client uses
\* MQTT_CLIENT_ID, so the broker closes the connection of the previous holder
ThreadConnect(t) ==
    /\ t \in loops
    /\ holder # t
    /\ holder' = t
    /\ UNCHANGED << impl, presence, norm, time, status, detector, sink, history,
                    session, n_clients, loops, t_pc, t_local, n_starts >>

\* on_message on the loop thread of client t, up to the edge test: the gates
\* read the globals, and a message that is dropped, rejected or debounced ends
\* the run
ThreadRead(t, m) ==
    /\ t \in loops
    /\ holder = t
    /\ t_pc[t] = "idle"
    /\ UNCHANGED << impl, presence, norm, time, status, sink, history, session,
                    n_clients, loops, holder, n_starts, _last_transition_ms,
                    _initialized >>
    /\ LET now_ms == clock
           state  == _normalize_state(m.payload.state)
       IN  IF RetainedRepeat(m) \/ Rejects(m, state)
           THEN UNCHANGED << _last_state, t_pc, t_local >>
           ELSE IF DebounceRejects(now_ms)
           THEN /\ _last_state' = DebouncedLastState(state)
                /\ UNCHANGED << t_pc, t_local >>
           ELSE /\ t_pc' = [t_pc EXCEPT ![t] = "read"]
                /\ t_local' = [t_local EXCEPT ![t] =
                                 [outcome |-> "accepted", state |-> state,
                                  now_ms |-> now_ms, count |-> IsCountEdge(state)]]
                /\ UNCHANGED _last_state

\* the rest of the run on thread t: the persistence call for a counted edge,
\* then the three assignments to the globals
ThreadWrite(t) ==
    /\ t_pc[t] = "read"
    /\ IF t_local[t].count
       THEN RecordCount(t_local[t].now_ms)
       ELSE UNCHANGED sink
    /\ _last_state' = t_local[t].state
    /\ _last_transition_ms' = t_local[t].now_ms
    /\ _initialized' = TRUE
    /\ t_pc' = [t_pc EXCEPT ![t] = "idle"]
    /\ t_local' = [t_local EXCEPT ![t] = NoLocals]
    /\ UNCHANGED << impl, presence, norm, time, status, history, session,
                    n_clients, loops, holder, n_starts >>

NextThreads ==
    \/ Tick
    \/ \E connect_ok \in BOOLEAN : ThreadStart(connect_ok)
    \/ ThreadStop
    \/ \E t \in Clients : ThreadConnect(t)
    \/ \E t \in Clients, m \in Messages : ThreadRead(t, m)
    \/ \E t \in Clients : ThreadWrite(t)

SpecThreads == Init /\ [][NextThreads]_vars

\* the supervisor calls alone: start_mqtt_client and stop_mqtt_client in any
\* order, with the loop threads connecting in between and no message delivered
NextStarts ==
    \/ Tick
    \/ \E connect_ok \in BOOLEAN : ThreadStart(connect_ok)
    \/ ThreadStop
    \/ \E t \in Clients : ThreadConnect(t)

SpecStarts == Init /\ [][NextStarts]_vars

----------------------------------------------------------------------------
(* The heartbeat and the last will seen from the broker: SpecHeartbeat *)

\* the process disappears without a call of stop_mqtt_client: no DISCONNECT
\* is sent, the broker finds out by itself
ProcessLost ==
    /\ alive
    /\ alive' = FALSE
    /\ UNCHANGED << impl, will, broker, norm, threads, time, session, status,
                    detector, sink, history >>

\* the broker closes a connection whose other end is gone (connection lost, or
\* process lost: keepalive has run out) and publishes the will it came with
BrokerCloses ==
    /\ broker.open
    /\ ~alive \/ conn # "connected"
    /\ broker' = [open |-> FALSE, will |-> NoWill,
                  heartbeat |-> IF broker.will = NoWill
                                THEN broker.heartbeat
                                ELSE broker.will.payload]
    /\ UNCHANGED << impl, will, alive, norm, threads, time, session, status,
                    detector, sink, history >>

NextHeartbeat ==
    \/ Tick
    \/ \E connect_ok \in BOOLEAN : start_mqtt_client(connect_ok)
    \/ \E rc \in {0, 5} : on_connect(rc)
    \/ on_disconnect
    \/ stop_mqtt_client
    \/ ProcessLost
    \/ BrokerCloses

SpecHeartbeat == Init /\ [][NextHeartbeat]_vars

----------------------------------------------------------------------------
(* Properties *)

\* what message m reports: its canonical state, or None when it is not admitted
Reported(m) ==
    IF m.payload.kind = "object" THEN _normalize_state(m.payload.state) ELSE None

\* the handling time is inside the debounce window of the last transition
InWindow ==
    _last_transition_ms # 0 /\ clock - _last_transition_ms < 100

Counted == count_calls' = Append(count_calls, clock)

NotCounted == count_calls' = count_calls

\* C1: a persistence call is made only by a run of the message handler, on an
\* admitted message that reports Clear, outside the debounce window, while
\* lastState is Interrupted; no other step makes one.
C1_CountOnlyOnEdge ==
    [][ count_calls' # count_calls =>
          \E m \in Messages :
              /\ on_message(m)
              /\ m.payload.kind = "object"
              /\ Reported(m) = Clear
              /\ ~InWindow
              /\ _last_state = Interrupted
              /\ Counted ]_vars

C1_Witness ==
    /\ ev.counted = 1
    /\ ev.outcome = "accepted"
    /\ Len(count_calls) = 1

\* C2: the second of two consecutive messages that report the same state and
\* both reached the debounce gate (the first accepted or debounce-rejected)
\* makes no persistence call, and no message handled while lastState is
\* Unknown makes one.
C2_NoCountOnRepeat ==
    [][ \A m \in Messages :
          count_calls' # count_calls /\ on_message(m) =>
              /\ ~(ev.outcome \in {"accepted", "debounced"} /\ ev.state = Reported(m))
              /\ _last_state # "unknown" ]_vars

\* C3 as stated: whenever the last accepted message was Interrupted, a live
\* Clear handled at least 100 ms after it makes exactly one persistence call
\* and leaves lastState Clear, and one handled inside the window makes none.
C3_AfterAcceptedInterrupted ==
    [][ \A m \in Messages :
          /\ ~m.retain
          /\ Reported(m) = Clear
          /\ last_accepted = Interrupted
          /\ on_message(m)
          => IF clock - _last_transition_ms >= 100
             THEN Counted /\ _last_state' = Clear
             ELSE NotCounted ]_vars

\* C3 amended: the same, provided lastState is still Interrupted when the
\* Clear message is handled (no debounce-rejected message has overwritten it).
C3_AfterInterruptedStillHeld ==
    [][ \A m \in Messages :
          /\ ~m.retain
          /\ Reported(m) = Clear
          /\ last_accepted = Interrupted
          /\ _last_state = Interrupted
          /\ on_message(m)
          => IF clock - _last_transition_ms >= 100
             THEN Counted /\ _last_state' = Clear
             ELSE NotCounted ]_vars

C3_Witness ==
    /\ ev.counted = 1
    /\ ~ev.retain
    /\ ev.state = Clear
    /\ ev.pre_state = Interrupted
    /\ _last_state = Clear
    /\ clock = _last_transition_ms
    /\ Len(count_calls) = 1

\* C4: any two persistence calls are at least the debounce interval (100 ms)
\* apart in handling time.
C4_CountsOneWindowApart ==
    \A i, j \in DOMAIN count_calls :
        i < j => count_calls[j] - count_calls[i] >= 100

C4_Witness ==
    Len(count_calls) >= 2

\* C5: a message with a recognised state that the debounce gate rejects
\* becomes the new lastState, and makes no persistence call.
C5_DebouncedStateStored ==
    [][ \A m \in Messages :
          /\ ~m.retain
          /\ Reported(m) # None
          /\ InWindow
          /\ on_message(m)
          => _last_state' = Reported(m) /\ NotCounted ]_vars

\* C6: a retained message that is the first message after a connect or a
\* reconnect makes no persistence call.
C6_FirstRetainedNeverCounts ==
    [][ \A m \in Messages :
          m.retain /\ fresh /\ on_message(m) => NotCounted ]_vars

\* C7: once the baseline is established, a retained message changes neither
\* lastState nor lastTransitionAt nor baselineEstablished and makes no
\* persistence call.
C7_LaterRetainedDropped ==
    [][ \A m \in Messages :
          m.retain /\ _initialized /\ on_message(m) =>
              UNCHANGED detector /\ NotCounted ]_vars

\* C8: when the message before was the retained seed (the first accepted
\* message) reporting Interrupted, a live Clear handled less than 100 ms
\* after it makes a persistence call.
C8_SeedDoesNotArmDebounce ==
    [][ \A m \in Messages :
          /\ ~m.retain
          /\ Reported(m) = Clear
          /\ ev.retain
          /\ ev.outcome = "accepted"
          /\ ev.pre_state = "unknown"
          /\ ev.state = Interrupted
          /\ clock - _last_transition_ms < 100
          /\ on_message(m)
          => Counted ]_vars

\* C9: after a reconnect, a first message that is retained and reports a
\* recognised state becomes the new lastState, with no persistence call.
C9_ReconnectReseeds ==
    [][ \A m \in Messages :
          /\ m.retain
          /\ fresh
          /\ ev.outcome # "none"
          /\ Reported(m) # None
          /\ on_message(m)
          => _last_state' = Reported(m) /\ NotCounted ]_vars

\* C10 as stated: a live Clear handled while lastState is Clear makes no
\* persistence call and leaves lastTransitionAt unchanged, at any time.
C10_ReplayKeepsTransitionTime ==
    [][ \A m \in Messages :
          /\ ~m.retain
          /\ Reported(m) = Clear
          /\ _last_state = Clear
          /\ on_message(m)
          => NotCounted /\ _last_transition_ms' = _last_transition_ms ]_vars

\* C10 amended: a live Clear handled while lastState is Clear makes no
\* persistence call and leaves lastState Clear; lastTransitionAt is unchanged
\* when it is handled inside the debounce window, and is set to the handling
\* time otherwise.
C10_ReplayNeverCounts ==
    [][ \A m \in Messages :
          /\ ~m.retain
          /\ Reported(m) = Clear
          /\ _last_state = Clear
          /\ on_message(m)
          => /\ NotCounted
             /\ _last_state' = Clear
             /\ _last_transition_ms' =
                    IF clock - _last_transition_ms < 100
                    THEN _last_transition_ms ELSE clock ]_vars

C10_Witness ==
    /\ ev.outcome = "accepted"
    /\ ~ev.retain
    /\ ev.state = Clear
    /\ ev.pre_state = Clear
    /\ ev.counted = 0
    /\ _last_transition_ms = clock

\* C11: a rejected message (empty payload, malformed JSON, JSON that is no
\* object, missing or unrecognised state) leaves lastState, lastTransitionAt
\* and baselineEstablished unchanged and makes no persistence call, and the
\* handler is still there for the next message. Stated from the effect: a
\* step that changes one of the three, makes a persistence call or leaves the
\* listener not connected is not the handling of such a message.
C11_RejectedChangesNothing ==
    [][ ~(UNCHANGED detector /\ NotCounted /\ conn' = "connected") =>
            \A m \in Messages : Reported(m) = None => ~on_message(m) ]_vars

\* "not json" as the first message: it is rejected, the baseline is still
\* unset and the listener is still connected
C11_Witness ==
    /\ ev.outcome = "rejected"
    /\ ev.pre_state = "unknown"
    /\ _last_state = "unknown"
    /\ ~_initialized
    /\ _last_transition_ms = 0
    /\ count_calls = << >>
    /\ conn = "connected"

\* C12: lastState is Unknown exactly when no message has been accepted yet,
\* which is exactly when _initialized is False and _last_transition_ms is 0;
\* otherwise it is Interrupted or Clear.
C12_UnknownOnlyBeforeBaseline ==
    /\ _last_state \in {"unknown", Interrupted, Clear}
    /\ (_last_state = "unknown") <=> (last_accepted = "unknown")
    /\ (_last_state = "unknown") <=> (~_initialized /\ _last_transition_ms = 0)
    /\ _initialized <=> (_last_transition_ms # 0)

C12_Witness ==
    /\ ev.outcome = "rejected"
    /\ ev.pre_state # "unknown"
    /\ _last_state = ev.pre_state

\* C13: no step assigns lastTransitionAt a smaller value than it held.
C13_TransitionTimeMonotonic ==
    [][ _last_transition_ms' >= _last_transition_ms ]_vars

\* a message was handled while the wall clock was behind lastTransitionAt
C13_Witness ==
    /\ _last_transition_ms # 0
    /\ clock < _last_transition_ms
    /\ ev.outcome = "debounced"

\* C14: when the persistence call made for an Interrupted -> Clear edge fails,
\* the failure is reported once through logger.error, the call is not made
\* again, lastState still becomes Clear and lastTransitionAt the handling time,
\* and the listener keeps running for the next message.
C14_FailedSaveStillAdvances ==
    [][ \A m \in Messages :
          /\ count_calls' # count_calls
          /\ db_rows' = db_rows
          /\ on_message(m)
          => /\ error_log' = error_log + 1
             /\ count_calls' = Append(count_calls, clock)
             /\ _last_state' = Clear
             /\ _last_transition_ms' = clock
             /\ _initialized'
             /\ loop_running' /\ conn' = "connected" /\ subs' = subs ]_vars

\* the only persistence call so far failed, in the handler run just made
C14_Witness ==
    /\ ev.counted = 1
    /\ Len(count_calls) = 1
    /\ db_rows = 0
    /\ error_log = 1
    /\ _last_state = Clear
    /\ _last_transition_ms = clock
    /\ loop_running /\ conn = "connected"

\* C15: only a run of the message handler changes lastState, lastTransitionAt
\* or baselineEstablished, or makes a persistence call; the connect callback,
\* the disconnect callback and the status query never do.
C15_OnlyHandlerChangesDetector ==
    [][ (detector' # detector \/ sink' # sink) => OnMessage ]_vars

\* the listener has reconnected with its baseline kept, and the status query
\* reports the state from before the disconnect
C15_Witness ==
    /\ conn = "connected"
    /\ fresh
    /\ _initialized
    /\ _last_state = Interrupted
    /\ status.connected
    /\ status.last_state = Interrupted

\* C16: once stop_mqtt_client has been called, the message handler runs no
\* more, whatever the connection state was at the call.
C16_NoMessageAfterStop ==
    [][ stop_called => ~OnMessage ]_vars

\* C19 as far as start_mqtt_client and the callbacks decide it: an exception
\* reaches the caller of start_mqtt_client exactly when the initial connect
\* fails (and then no network loop runs); a refused or lost connection after
\* a successful start raises nothing, leaves the loop reconnecting, and the
\* status query reports connected = false for it.
C19_OnlyInitialConnectRaises ==
    [][ /\ start_mqtt_client(FALSE) => raised' /\ ~loop_running'
        /\ raised' # raised => start_mqtt_client(FALSE)
        /\ (on_disconnect \/ on_connect(5)) =>
               ~raised' /\ loop_running' /\ conn' = "connecting"
        /\ get_mqtt_status => (status'.connected <=> conn = "connected") ]_vars

\* the connection was lost after a successful start: nothing was raised, the
\* loop is reconnecting and the status query has said connected = false
C19_Witness ==
    /\ ~raised
    /\ loop_running
    /\ conn = "connecting"
    /\ _initialized
    /\ status.status # "never asked"
    /\ ~status.connected
    /\ status.last_state # "unknown"

\* C20: a session that is connected holds exactly one subscription, to the one
\* state topic at QoS 1; a session that is not (connect refused with rc != 0,
\* connection lost, stopped) holds none.
C20_OneSubscriptionPerConnect ==
    IF conn = "connected"
    THEN subs = << [topic |-> MQTT_TOPIC_STATE, qos |-> 1] >>
    ELSE subs = << >>

\* connected again after a lost connection, with messages handled before
C20_Witness ==
    /\ conn = "connected"
    /\ fresh
    /\ ev.outcome # "none"
    /\ Len(subs) = 1

\* C18: the normalizer returns Interrupted for every raw string that, trimmed
\* and lower-cased, starts with "interrompid" or with "interrupted", Clear for
\* exactly "livre" and "clear", and None for everything else, None included.
C18_NormalizerContract ==
    n_out # "pending" =>
        n_out = IF n_raw = NoneRaw THEN None
                ELSE LET s == lower(strip(n_raw))
                     IN  IF startswith(s, S_interrompid) \/ startswith(s, S_interrupted)
                         THEN Interrupted
                         ELSE IF s \in {S_livre, S_clear} THEN Clear
                         ELSE None

\* C17: whatever the start_mqtt_client / stop_mqtt_client calls and the
\* deliveries, at most one handler run is between reading the detector
\* globals and writing them.
C17_OneHandlerAtATime ==
    Cardinality({t \in Clients : t_pc[t] = "read"}) <= 1

\* C22: no step taken inside the debounce window, a debounce-rejected message
\* included, changes lastTransitionAt, and a valid non-retained message
\* handled at least 100 ms after the last accepted one is accepted in both
\* handlers: lastState and lastTransitionAt are set from it and the edge test
\* runs, whatever was rejected in between.
C22_ChatterCannotStarve ==
    [][ /\ InWindow => UNCHANGED _last_transition_ms
        /\ (_last_transition_ms # 0 /\ clock - _last_transition_ms >= 100) =>
              \A m \in Messages :
                  ~m.retain /\ Reported(m) # None /\ on_message(m) =>
                      /\ _last_transition_ms' = clock
                      /\ _last_state' = Reported(m)
                      /\ last_accepted' = Reported(m)
                      /\ IF _last_state = Interrupted /\ Reported(m) = Clear
                         THEN Counted
                         ELSE NotCounted ]_vars

\* back-end/mqtt_client.py: a count at StartMs + 100, "interrompida" rejected
\* 99 ms later (no accepted message fits between the two counts), and "livre"
\* accepted and counted 199 ms after the first count
C22_Witness ==
    /\ impl = "legacy"
    /\ count_calls = << StartMs + 100, StartMs + 299 >>
    /\ ev.outcome = "accepted"
    /\ ~ev.retain
    /\ _last_transition_ms = StartMs + 299

\* C23: in the services module at most one Client object and one network loop
\* are ever created: a loop is started only by the call that finds _client
\* unset, and every start_mqtt_client call made once _client is set changes
\* nothing (no client, no connect, no loop, no exception).
C23_OneClientEver ==
    [][ impl = "services" =>
          /\ n_clients' <= 1
          /\ loops' \subseteq {1}
          /\ (loops' \subseteq loops) \/ _client = None
          /\ (_client # None /\ n_starts' # n_starts) =>
                UNCHANGED << session, n_clients, loops, holder >> ]_vars

\* services module: the first start_mqtt_client raised on connect(), and a
\* second call was made: still one client and no loop
C23_Witness ==
    /\ impl = "services"
    /\ raised
    /\ n_starts = 2
    /\ n_clients = 1
    /\ loops = {}

\* C21: in back-end/mqtt_client.py the will "offline" (retained, heartbeat
\* topic) is registered before the connection is opened, so every connection
\* the broker holds carries it; the retained heartbeat is "online" whenever
\* the listener is connected (its connect callback has then run); and after
\* the process is lost without stop_mqtt_client having been called, the
\* heartbeat of a listener that had connected is "offline" once the broker has
\* closed its connection.
C21_HeartbeatFollowsListener ==
    impl = "legacy" =>
        /\ _client # None =>
              will = [topic |-> HEARTBEAT_TOPIC, payload |-> "offline", retain |-> TRUE]
        /\ broker.open => broker.will = will
        /\ (alive /\ conn = "connected") => broker.heartbeat = "online"
        /\ (~alive /\ ~stop_called /\ ~broker.open /\ broker.heartbeat # None) =>
              broker.heartbeat = "offline"

\* the process was lost while connected, and the broker has closed the
\* connection and published the will
C21_Witness ==
    /\ impl = "legacy"
    /\ ~alive
    /\ ~stop_called
    /\ conn = "connected"
    /\ ~broker.open
    /\ broker.heartbeat = "offline"

====
